---- MODULE Spec2Model ----
(***************************************************************************)
(* rspawn: the relaunch orchestration of src/src/lib.rs.                   *)
(*                                                                         *)
(* Every process of the model is one running instance of the host program  *)
(* that calls relaunch_program once.  Instances are started by the user    *)
(* (Launch) or by the relaunch spawn of another instance (RelaunchSpawn).  *)
(* The instances share the lock directory, the installed binary and the    *)
(* registry; everything else is local to the call.                         *)
(***************************************************************************)
EXTENDS Integers, Sequences, FiniteSets

\* ---------------------------------------------------------------- bounds
MaxProcs == 2
NumPaths == 2
MaxPathEntries == 2

Procs == 1..MaxProcs
\* the values Uuid::new_v4() can take, i.e. the paths /tmp/<uuid>.lock
Paths == 1..NumPaths
\* the version strings that occur, in semantic order
KnownVersions == <<"0.1.0", "0.2.0">>
Versions == {KnownVersions[i] : i \in DOMAIN KnownVersions}
\* v is a semantically lower version than w
SemverLess(v, w) ==
    \E i, j \in DOMAIN KnownVersions :
        i < j /\ KnownVersions[i] = v /\ KnownVersions[j] = w

NoProc == 0
NoPath == 0
NoVersion == ""

\* relaunch_program returns Result<()>.  result is "Ok" for Ok(()), and an
\* anyhow error is named by the step whose message it carries:
\*   "LockConflict"          "Program is already relaunching; ..." (lib.rs:298)
\*   "LockCreateFailure"     "Failed to create lock file"          (lib.rs:302)
\*   "OriginCheckFailure"    "Program must be executed from PATH"  (lib.rs:311)
\*   "RegistryFetchFailure"  "Failed to get latest version"        (lib.rs:316)
\*   "InstallFailure"        "Failed to run/wait for cargo install" (lib.rs:345, 348)
\*   "RelaunchSpawnFailure"  "Failed to relaunch the program"      (lib.rs:361)
\* The two Ok(()) returns differ only in the info! line, kept in info_log:
\* "already_latest" (lib.rs:368) and "declined" (lib.rs:365).

VARIABLES
    pc,                 \* position of each instance in relaunch_program
    lock_file_path,     \* lock_file_path of the call (lib.rs:294)
    current_version,    \* env!("CARGO_PKG_VERSION") of the running binary
    latest_version,     \* latest_version of the call (lib.rs:316)
    confirm_arg,        \* argument handed to confirm_fn (lib.rs:331)
    install_status,     \* exit status of the cargo install child
    result,             \* value returned to the caller
    info_log,           \* info! line written on a success return
    trace,              \* the steps the call has taken, in order, each as
                        \* <<step, whether it succeeded>>
    parent,             \* the instance whose relaunch spawn started this one
    fs,                 \* lock files that exist under /tmp
    installed,          \* version of the binary cargo has installed
    registry,           \* versions[0].num served by crates.io
    check_if_executed_from_PATH,  \* the flag the host program passes
    origin_call         \* one call of is_executed_from_path on its own: its
                        \* environment and the value it returned

vars == <<pc, lock_file_path, current_version, latest_version, confirm_arg,
          install_status, result, info_log, trace, parent, fs, installed,
          registry, check_if_executed_from_PATH, origin_call>>

\* ------------------------------------------------------------ OriginCheck
\* The environment of is_executed_from_path: the PATH variable split on ':'
\* and the files that exist on disk, as <<directory, file name>>.
SearchPath == <<"bin", "opt">>
ExeFiles == {<<"opt", "prog">>, <<"home", "prog">>, <<"home", "tool">>}
\* the working directory, against which a relative path is resolved
Cwd == "home"

\* What env::current_exe() can yield: no path at all (the call failed and
\* PathBuf::new() is used), the root, an absolute path ending in "..", or
\* an absolute file path.
ExePaths ==
    {[kind |-> "empty", dir |-> "", name |-> ""],
     [kind |-> "root", dir |-> "", name |-> ""],
     [kind |-> "dotdot", dir |-> "opt", name |-> ""],
     [kind |-> "file", dir |-> "opt", name |-> "prog"],
     [kind |-> "file", dir |-> "home", name |-> "prog"],
     [kind |-> "file", dir |-> "home", name |-> "tool"]}

RECURSIVE FoundInPath(_, _, _)
FoundInPath(dirs, name, files) ==
    IF dirs = <<>> THEN FALSE
    ELSE IF <<Head(dirs), name>> \in files THEN TRUE
    ELSE FoundInPath(Tail(dirs), name, files)

\* Path::new(dir).join(name) for an empty entry of PATH is the relative path
\* name, which exists() resolves against the working directory
JoinDirs(dirs, cwd) ==
    [i \in DOMAIN dirs |-> IF dirs[i] = "" THEN cwd ELSE dirs[i]]

\* lib.rs:97-120.  dirs is PATH split on ':'; an exe_path that is relative or
\* has no parent gives false at once, one without a file name (file_name()
\* is None) skips the loop.
is_executed_from_path(exe_path, dirs, files, cwd) ==
    IF exe_path.kind = "empty" \/ exe_path.kind = "root" THEN FALSE
    ELSE IF exe_path.kind = "dotdot" THEN FALSE
    ELSE FoundInPath(JoinDirs(dirs, cwd), exe_path.name, files)

\* the flag ignored
OriginCheckFails_unconditional(check, exe_path) ==
    ~is_executed_from_path(exe_path, SearchPath, ExeFiles, Cwd)

\* lib.rs:310, the condition under which the call stops after the lock
OriginCheckFails(check, exe_path) ==
    check /\ ~is_executed_from_path(exe_path, SearchPath, ExeFiles, Cwd)

\* ---------------------------------------------------------------- LockGuard
\* Uuid::new_v4() is random and paths are only ever compared for equality, so
\* a generated path is either one some call has generated before (a
\* collision) or a new one, and the least unused value stands for every new
\* one.
generate_lock_file_path(generated) ==
    {path \in Paths :
        \/ path \in generated
        \/ \A other \in Paths : other < path => other \in generated}

\* the existence test left out
LockExists_never(files, path) == FALSE

LockExists(files, path) == path \in files

create_lock_file(files, path) == files \cup {path}

\* a guard that reports success and leaves the file in place
remove_file_keeps(files, path, ok) == files

\* remove_file in LockFileGuard::drop; ok is whether the OS call succeeds
remove_file(files, path, ok) == IF ok THEN files \ {path} ELSE files

\* remove_file can only succeed on a file that exists
RemoveOutcomes(files, path) ==
    IF path \in files THEN {TRUE, FALSE} ELSE {FALSE}

\* ----------------------------------------------------------- VersionResolver
FetchResponses == {"send_error", "http_error", "body_error", "json_error",
                   "no_version", "ok"}

\* get_latest_version_from_crates_io: NoVersion stands for Err(..)
get_latest_version_from_crates_io(response, published) ==
    IF response = "ok" THEN published ELSE NoVersion

\* equal versions treated as an update
UpdateAvailable_or_equal(latest, current) == ~SemverLess(latest, current)

\* only a semantically newer version treated as an update
UpdateAvailable_newer(latest, current) == SemverLess(current, latest)

\* lib.rs:321
UpdateAvailable(latest, current) == latest # current

\* ------------------------------------------------------------------- Init
\* no separate call of is_executed_from_path is being looked at
NoOriginCall ==
    [exe_path |-> [kind |-> "empty", dir |-> "", name |-> ""],
     dirs |-> <<>>, files |-> {}, cwd |-> "", called |-> FALSE,
     returned |-> FALSE]

Init ==
    /\ pc = [p \in Procs |-> "idle"]
    /\ lock_file_path = [p \in Procs |-> NoPath]
    /\ current_version = [p \in Procs |-> NoVersion]
    /\ latest_version = [p \in Procs |-> NoVersion]
    /\ confirm_arg = [p \in Procs |-> NoVersion]
    /\ install_status = [p \in Procs |-> "none"]
    /\ result = [p \in Procs |-> "none"]
    /\ info_log = [p \in Procs |-> "none"]
    /\ trace = [p \in Procs |-> <<>>]
    /\ parent = [p \in Procs |-> NoProc]
    /\ fs = {}
    /\ installed \in Versions
    /\ registry \in Versions
    /\ check_if_executed_from_PATH \in BOOLEAN
    /\ origin_call = NoOriginCall

\* the next instance to be started
NextIdle(p) == pc[p] = "idle" /\ \A q \in Procs : q < p => pc[q] # "idle"

Log(p, event) == [trace EXCEPT ![p] = Append(@, event)]

\* ----------------------------------------------------------------- returns
\* the process ended instead of the error being returned
ReturnNoGuard_exits(p, value) ==
    /\ pc' = [pc EXCEPT ![p] = "exited"]
    /\ result' = [result EXCEPT ![p] = value]
    /\ fs' = fs

\* return before the guard exists (lib.rs:298, 302): nothing is dropped
ReturnNoGuard(p, value) ==
    /\ pc' = [pc EXCEPT ![p] = "returned"]
    /\ result' = [result EXCEPT ![p] = value]
    /\ fs' = fs

\* the error of remove_file returned in place of the value of the call
ReturnDropGuard_propagates(p, value, events) ==
    \E ok \in RemoveOutcomes(fs, lock_file_path[p]) :
        /\ fs' = remove_file(fs, lock_file_path[p], ok)
        /\ trace' = [trace EXCEPT ![p] = @ \o events \o <<<<"remove", ok>>>>]
        /\ pc' = [pc EXCEPT ![p] = "returned"]
        /\ result' = [result EXCEPT ![p] = IF ok THEN value ELSE "RemoveFailure"]

\* return with _lock_guard in scope: LockFileGuard::drop runs first
ReturnDropGuard(p, value, events) ==
    \E ok \in RemoveOutcomes(fs, lock_file_path[p]) :
        /\ fs' = remove_file(fs, lock_file_path[p], ok)
        /\ trace' = [trace EXCEPT ![p] = @ \o events \o <<<<"remove", ok>>>>]
        /\ pc' = [pc EXCEPT ![p] = "returned"]
        /\ result' = [result EXCEPT ![p] = value]

\* ----------------------------------------------------------------- actions
\* the user starts the installed program
Launch(p) ==
    /\ NextIdle(p)
    /\ pc' = [pc EXCEPT ![p] = "start"]
    /\ current_version' = [current_version EXCEPT ![p] = installed]
    /\ UNCHANGED <<lock_file_path, latest_version, confirm_arg, install_status,
                   result, info_log, trace, parent, fs, installed, registry,
                   check_if_executed_from_PATH, origin_call>>

\* lib.rs:294-299: generate the path, test whether it exists
CheckLock(p) ==
    /\ pc[p] = "start"
    /\ \E path \in generate_lock_file_path(
                        {lock_file_path[q] : q \in Procs} \ {NoPath}) :
        /\ lock_file_path' = [lock_file_path EXCEPT ![p] = path]
        /\ trace' = Log(p, <<"exists", ~LockExists(fs, path)>>)
        /\ IF LockExists(fs, path)
           THEN ReturnNoGuard(p, "LockConflict")
           ELSE /\ pc' = [pc EXCEPT ![p] = "create"]
                /\ UNCHANGED <<result, fs>>
    /\ UNCHANGED <<current_version, latest_version, confirm_arg, install_status,
                   info_log, parent, installed, registry,
                   check_if_executed_from_PATH, origin_call>>

\* the file created exclusively (create_new): an existing file is an error
CreateLock_exclusive(p) ==
    /\ pc[p] = "create"
    /\ \E created \in {c \in BOOLEAN : c => lock_file_path[p] \notin fs} :
        IF created
        THEN /\ fs' = create_lock_file(fs, lock_file_path[p])
             /\ trace' = Log(p, <<"create", TRUE>>)
             /\ pc' = [pc EXCEPT ![p] = "origin"]
             /\ UNCHANGED result
        ELSE /\ trace' = Log(p, <<"create", FALSE>>)
             /\ ReturnNoGuard(p, "LockCreateFailure")
    /\ UNCHANGED <<lock_file_path, current_version, latest_version, confirm_arg,
                   install_status, info_log, parent, installed, registry,
                   check_if_executed_from_PATH, origin_call>>

\* lib.rs:302-307: create the file, then hold the guard
CreateLock(p) ==
    /\ pc[p] = "create"
    /\ \E created \in BOOLEAN :
        IF created
        THEN /\ fs' = create_lock_file(fs, lock_file_path[p])
             /\ trace' = Log(p, <<"create", TRUE>>)
             /\ pc' = [pc EXCEPT ![p] = "origin"]
             /\ UNCHANGED result
        ELSE /\ trace' = Log(p, <<"create", FALSE>>)
             /\ ReturnNoGuard(p, "LockCreateFailure")
    /\ UNCHANGED <<lock_file_path, current_version, latest_version, confirm_arg,
                   install_status, info_log, parent, installed, registry,
                   check_if_executed_from_PATH, origin_call>>

\* lib.rs:310-312; is_executed_from_path is only called when the flag is set
OriginCheck(p) ==
    /\ pc[p] = "origin"
    /\ \E exe_path \in ExePaths :
        LET called == IF check_if_executed_from_PATH
                      THEN <<<<"origin", is_executed_from_path(exe_path, SearchPath,
                                                              ExeFiles, Cwd)>>>>
                      ELSE <<>>
        IN  IF OriginCheckFails(check_if_executed_from_PATH, exe_path)
            THEN ReturnDropGuard(p, "OriginCheckFailure", called)
            ELSE /\ pc' = [pc EXCEPT ![p] = "fetch"]
                 /\ trace' = [trace EXCEPT ![p] = @ \o called]
                 /\ UNCHANGED <<result, fs>>
    /\ UNCHANGED <<lock_file_path, current_version, latest_version, confirm_arg,
                   install_status, info_log, parent, installed, registry,
                   check_if_executed_from_PATH, origin_call>>

\* a failed fetch tried again
FetchLatest_retries(p) ==
    /\ pc[p] = "fetch"
    /\ \E response \in FetchResponses :
        LET v == get_latest_version_from_crates_io(response, registry) IN
        IF v = NoVersion
        THEN /\ trace' = Log(p, <<"fetch", FALSE>>)
             /\ UNCHANGED <<pc, result, fs, latest_version>>
        ELSE /\ latest_version' = [latest_version EXCEPT ![p] = v]
             /\ pc' = [pc EXCEPT ![p] = "compare"]
             /\ trace' = Log(p, <<"fetch", TRUE>>)
             /\ UNCHANGED <<result, fs>>
    /\ UNCHANGED <<lock_file_path, current_version, confirm_arg, install_status,
                   info_log, parent, installed, registry,
                   check_if_executed_from_PATH, origin_call>>

\* lib.rs:316
FetchLatest(p) ==
    /\ pc[p] = "fetch"
    /\ \E response \in FetchResponses :
        LET v == get_latest_version_from_crates_io(response, registry) IN
        IF v = NoVersion
        THEN /\ ReturnDropGuard(p, "RegistryFetchFailure", <<<<"fetch", FALSE>>>>)
             /\ UNCHANGED latest_version
        ELSE /\ latest_version' = [latest_version EXCEPT ![p] = v]
             /\ pc' = [pc EXCEPT ![p] = "compare"]
             /\ trace' = Log(p, <<"fetch", TRUE>>)
             /\ UNCHANGED <<result, fs>>
    /\ UNCHANGED <<lock_file_path, current_version, confirm_arg, install_status,
                   info_log, parent, installed, registry,
                   check_if_executed_from_PATH, origin_call>>

\* an update installed without asking
Compare_skips_confirm(p) ==
    /\ pc[p] = "compare"
    /\ IF UpdateAvailable(latest_version[p], current_version[p])
       THEN /\ pc' = [pc EXCEPT ![p] = "install"]
            /\ UNCHANGED <<result, info_log, trace, fs>>
       ELSE /\ info_log' = [info_log EXCEPT ![p] = "already_latest"]
            /\ ReturnDropGuard(p, "Ok", <<>>)
    /\ UNCHANGED <<lock_file_path, current_version, latest_version, confirm_arg,
                   install_status, parent, installed, registry,
                   check_if_executed_from_PATH, origin_call>>

\* lib.rs:321 and 367-371
Compare(p) ==
    /\ pc[p] = "compare"
    /\ IF UpdateAvailable(latest_version[p], current_version[p])
       THEN /\ pc' = [pc EXCEPT ![p] = "confirm"]
            /\ UNCHANGED <<result, info_log, trace, fs>>
       ELSE /\ info_log' = [info_log EXCEPT ![p] = "already_latest"]
            /\ ReturnDropGuard(p, "Ok", <<>>)
    /\ UNCHANGED <<lock_file_path, current_version, latest_version, confirm_arg,
                   install_status, parent, installed, registry,
                   check_if_executed_from_PATH, origin_call>>

\* the answer of the policy ignored
Confirm_ignores_answer(p) ==
    /\ pc[p] = "confirm"
    /\ confirm_arg' = [confirm_arg EXCEPT ![p] = latest_version[p]]
    /\ \E answer \in BOOLEAN :
        /\ pc' = [pc EXCEPT ![p] = "install"]
        /\ trace' = Log(p, <<"confirm", answer>>)
        /\ UNCHANGED <<result, info_log, fs>>
    /\ UNCHANGED <<lock_file_path, current_version, latest_version,
                   install_status, parent, installed, registry,
                   check_if_executed_from_PATH, origin_call>>

\* a declined update compared and asked about again instead of returned
Confirm_asks_again(p) ==
    /\ pc[p] = "confirm"
    /\ confirm_arg' = [confirm_arg EXCEPT ![p] = latest_version[p]]
    /\ \E answer \in BOOLEAN :
        IF answer
        THEN /\ pc' = [pc EXCEPT ![p] = "install"]
             /\ trace' = Log(p, <<"confirm", TRUE>>)
             /\ UNCHANGED <<result, info_log, fs>>
        ELSE /\ pc' = [pc EXCEPT ![p] = "compare"]
             /\ info_log' = [info_log EXCEPT ![p] = "declined"]
             /\ UNCHANGED <<result, trace, fs>>
    /\ UNCHANGED <<lock_file_path, current_version, latest_version,
                   install_status, parent, installed, registry,
                   check_if_executed_from_PATH, origin_call>>

\* lib.rs:331 and 364-371: the policy is a callback returning any boolean
Confirm(p) ==
    /\ pc[p] = "confirm"
    /\ confirm_arg' = [confirm_arg EXCEPT ![p] = latest_version[p]]
    /\ \E answer \in BOOLEAN :
        IF answer
        THEN /\ pc' = [pc EXCEPT ![p] = "install"]
             /\ trace' = Log(p, <<"confirm", TRUE>>)
             /\ UNCHANGED <<result, info_log, fs>>
        ELSE /\ info_log' = [info_log EXCEPT ![p] = "declined"]
             /\ ReturnDropGuard(p, "Ok", <<<<"confirm", FALSE>>>>)
    /\ UNCHANGED <<lock_file_path, current_version, latest_version,
                   install_status, parent, installed, registry,
                   check_if_executed_from_PATH, origin_call>>

\* a failed installer spawn ignored and the relaunch attempted anyway
InstallSpawn_ignores_failure(p) ==
    /\ pc[p] = "install"
    /\ \E spawned \in BOOLEAN :
        IF spawned
        THEN /\ pc' = [pc EXCEPT ![p] = "wait"]
             /\ trace' = Log(p, <<"install_spawn", TRUE>>)
             /\ UNCHANGED <<result, fs>>
        ELSE /\ pc' = [pc EXCEPT ![p] = "relaunch"]
             /\ trace' = Log(p, <<"install_spawn", FALSE>>)
             /\ UNCHANGED <<result, fs>>
    /\ UNCHANGED <<lock_file_path, current_version, latest_version, confirm_arg,
                   install_status, info_log, parent, installed, registry,
                   check_if_executed_from_PATH, origin_call>>

\* lib.rs:344-345
InstallSpawn(p) ==
    /\ pc[p] = "install"
    /\ \E spawned \in BOOLEAN :
        IF spawned
        THEN /\ pc' = [pc EXCEPT ![p] = "wait"]
             /\ trace' = Log(p, <<"install_spawn", TRUE>>)
             /\ UNCHANGED <<result, fs>>
        ELSE ReturnDropGuard(p, "InstallFailure", <<<<"install_spawn", FALSE>>>>)
    /\ UNCHANGED <<lock_file_path, current_version, latest_version, confirm_arg,
                   install_status, info_log, parent, installed, registry,
                   check_if_executed_from_PATH, origin_call>>

\* a non-zero exit status of the installer treated as a failure
InstallWait_checks_status(p) ==
    /\ pc[p] = "wait"
    /\ \E outcome \in {"wait_err", "zero", "nonzero"} :
        IF outcome = "wait_err"
        THEN /\ ReturnDropGuard(p, "InstallFailure", <<<<"install_wait", FALSE>>>>)
             /\ UNCHANGED <<install_status, installed>>
        ELSE IF outcome = "nonzero"
        THEN /\ install_status' = [install_status EXCEPT ![p] = outcome]
             /\ ReturnDropGuard(p, "InstallFailure", <<<<"install_wait", FALSE>>>>)
             /\ UNCHANGED installed
        ELSE /\ install_status' = [install_status EXCEPT ![p] = outcome]
             /\ installed' = registry
             /\ pc' = [pc EXCEPT ![p] = "relaunch"]
             /\ trace' = Log(p, <<"install_wait", TRUE>>)
             /\ UNCHANGED <<result, fs>>
    /\ UNCHANGED <<lock_file_path, current_version, latest_version, confirm_arg,
                   info_log, parent, registry,
                   check_if_executed_from_PATH, origin_call>>

\* lib.rs:348: the exit status is bound to _ and never read.  An installer
\* that exits with zero has replaced the installed binary.
InstallWait(p) ==
    /\ pc[p] = "wait"
    /\ \E outcome \in {"wait_err", "zero", "nonzero"} :
        IF outcome = "wait_err"
        THEN /\ ReturnDropGuard(p, "InstallFailure", <<<<"install_wait", FALSE>>>>)
             /\ UNCHANGED <<install_status, installed>>
        ELSE /\ install_status' = [install_status EXCEPT ![p] = outcome]
             /\ installed' = IF outcome = "zero" THEN registry ELSE installed
             /\ pc' = [pc EXCEPT ![p] = "relaunch"]
             /\ trace' = Log(p, <<"install_wait", TRUE>>)
             /\ UNCHANGED <<result, fs>>
    /\ UNCHANGED <<lock_file_path, current_version, latest_version, confirm_arg,
                   info_log, parent, registry,
                   check_if_executed_from_PATH, origin_call>>

\* exit(0) reached whether or not the spawn succeeded
RelaunchSpawn_always_exits(p) ==
    /\ pc[p] = "relaunch"
    /\ \/ \E q \in Procs :
            /\ NextIdle(q)
            /\ pc' = [pc EXCEPT ![p] = "spawned", ![q] = "start"]
            /\ current_version' = [current_version EXCEPT ![q] = installed]
            /\ parent' = [parent EXCEPT ![q] = p]
            /\ trace' = Log(p, <<"relaunch_spawn", TRUE>>)
       \/ /\ pc' = [pc EXCEPT ![p] = "spawned"]
          /\ trace' = Log(p, <<"relaunch_spawn", FALSE>>)
          /\ UNCHANGED <<current_version, parent>>
    /\ UNCHANGED <<lock_file_path, latest_version, confirm_arg, install_status,
                   result, info_log, fs, installed, registry,
                   check_if_executed_from_PATH, origin_call>>

\* lib.rs:351-363: a successful spawn starts a new instance of the installed
\* binary; the spawning instance is then about to call exit(0).  Once all
\* MaxProcs instances are in use the spawned instance is not followed.
RelaunchSpawn(p) ==
    /\ pc[p] = "relaunch"
    /\ \/ \E q \in Procs :
            /\ NextIdle(q)
            /\ pc' = [pc EXCEPT ![p] = "spawned", ![q] = "start"]
            /\ current_version' = [current_version EXCEPT ![q] = installed]
            /\ parent' = [parent EXCEPT ![q] = p]
            /\ trace' = Log(p, <<"relaunch_spawn", TRUE>>)
            /\ UNCHANGED <<result, fs>>
       \/ /\ \A q \in Procs : pc[q] # "idle"
          /\ pc' = [pc EXCEPT ![p] = "spawned"]
          /\ trace' = Log(p, <<"relaunch_spawn", TRUE>>)
          /\ UNCHANGED <<current_version, parent, result, fs>>
       \/ /\ ReturnDropGuard(p, "RelaunchSpawnFailure", <<<<"relaunch_spawn", FALSE>>>>)
          /\ UNCHANGED <<current_version, parent>>
    /\ UNCHANGED <<lock_file_path, latest_version, confirm_arg, install_status,
                   info_log, installed, registry,
                   check_if_executed_from_PATH, origin_call>>

\* the exit(0) left out, so that control falls through to Ok(())
Exit_returns(p) ==
    /\ pc[p] = "spawned"
    /\ ReturnDropGuard(p, "Ok", <<>>)
    /\ UNCHANGED <<lock_file_path, current_version, latest_version, confirm_arg,
                   install_status, info_log, parent, installed, registry,
                   check_if_executed_from_PATH, origin_call>>

\* lib.rs:358: exit(0) ends the process without running any destructor
Exit(p) ==
    /\ pc[p] = "spawned"
    /\ pc' = [pc EXCEPT ![p] = "exited"]
    /\ trace' = Log(p, <<"exit", TRUE>>)
    /\ UNCHANGED <<lock_file_path, current_version, latest_version, confirm_arg,
                   install_status, result, info_log, parent, fs, installed,
                   registry,
                   check_if_executed_from_PATH, origin_call>>

Next ==
    \E p \in Procs :
        \/ Launch(p)
        \/ CheckLock(p)
        \/ CreateLock(p)
        \/ OriginCheck(p)
        \/ FetchLatest(p)
        \/ Compare(p)
        \/ Confirm(p)
        \/ InstallSpawn(p)
        \/ InstallWait(p)
        \/ RelaunchSpawn(p)
        \/ Exit(p)

Spec == Init /\ [][Next]_vars

\* lib.rs:283-359: the steps of one call of relaunch_program by instance p
relaunch_program(p) ==
    \/ CheckLock(p)
    \/ CreateLock(p)
    \/ OriginCheck(p)
    \/ FetchLatest(p)
    \/ Compare(p)
    \/ Confirm(p)
    \/ InstallSpawn(p)
    \/ InstallWait(p)
    \/ RelaunchSpawn(p)
    \/ Exit(p)

\* Every blocking call made by relaunch_program (the registry request, the
\* confirmation callback, Command::spawn and wait) eventually returns and
\* the thread of a started call keeps being scheduled; whether a further
\* instance is ever launched is left open.
FairSpec == Spec /\ \A p \in Procs : WF_vars(relaunch_program(p))

\* ------------------------------------------- is_executed_from_path alone
\* One call of is_executed_from_path in an arbitrary environment: PATH with
\* up to MaxPathEntries entries (split(':') never yields none; an unset or
\* empty PATH yields the single empty entry), any set of files on disk that
\* contains the running executable, any working directory.
PathEntries == {"", "bin", "opt"}
DiskDirs == {"bin", "opt", "home"}
DiskFiles == {<<"bin", "prog">>, <<"opt", "prog">>, <<"home", "prog">>,
              <<"home", "tool">>}

SplitPaths ==
    UNION {[1..n -> PathEntries] : n \in 1..MaxPathEntries}

InitOrigin ==
    /\ pc = [p \in Procs |-> "idle"]
    /\ lock_file_path = [p \in Procs |-> NoPath]
    /\ current_version = [p \in Procs |-> NoVersion]
    /\ latest_version = [p \in Procs |-> NoVersion]
    /\ confirm_arg = [p \in Procs |-> NoVersion]
    /\ install_status = [p \in Procs |-> "none"]
    /\ result = [p \in Procs |-> "none"]
    /\ info_log = [p \in Procs |-> "none"]
    /\ trace = [p \in Procs |-> <<>>]
    /\ parent = [p \in Procs |-> NoProc]
    /\ fs = {}
    /\ installed = KnownVersions[1]
    /\ registry = KnownVersions[1]
    /\ check_if_executed_from_PATH = TRUE
    /\ \E exe_path \in ExePaths, dirs \in SplitPaths,
          files \in SUBSET DiskFiles, cwd \in {"opt", "home"} :
        /\ exe_path.kind = "file" => <<exe_path.dir, exe_path.name>> \in files
        /\ origin_call = [exe_path |-> exe_path, dirs |-> dirs,
                          files |-> files, cwd |-> cwd, called |-> FALSE,
                          returned |-> FALSE]

EvaluateOrigin ==
    /\ ~origin_call.called
    /\ origin_call' =
        [origin_call EXCEPT
            !.called = TRUE,
            !.returned =
                is_executed_from_path(origin_call.exe_path, origin_call.dirs,
                                      origin_call.files, origin_call.cwd)]
    /\ UNCHANGED <<pc, lock_file_path, current_version, latest_version,
                   confirm_arg, install_status, result, info_log, trace,
                   parent, fs, installed, registry,
                   check_if_executed_from_PATH>>

NextOrigin == EvaluateOrigin

SpecOrigin == InitOrigin /\ [][NextOrigin]_vars

\* ========================================================== properties
HasIn(tr, event) == \E i \in DOMAIN tr : tr[i] = event

StepsOf(tr) == {tr[i][1] : i \in DOMAIN tr}

LastOf(tr) == tr[Len(tr)]

\* instance p returns from relaunch_program in this step
Returning(p) == pc[p] # "returned" /\ pc'[p] = "returned"

\* the drop of the guard in this step left the marker of p in place only
\* because remove_file reported an error
ReleasedUnlessRemoveFailed(p) ==
    \/ lock_file_path[p] \notin fs'
    \/ LastOf(trace'[p]) = <<"remove", FALSE>>

\* C1: whenever a call that created its marker returns to its caller, the
\* marker is gone at the moment of return, unless deleting it failed.
C1_MarkerReleasedAtReturn ==
    [][\A p \in Procs :
        (Returning(p) /\ HasIn(trace'[p], <<"create", TRUE>>))
            => /\ StepsOf(trace'[p]) \cap {"remove"} # {}
               /\ ReleasedUnlessRemoveFailed(p)]_vars

C1_Witness ==
    \E p \in Procs :
        /\ result[p] = "RegistryFetchFailure"
        /\ LastOf(trace[p]) = <<"remove", TRUE>>
        /\ lock_file_path[p] \notin fs

\* C2: an instance started by a relaunch hand-off, calling relaunch_program
\* while the marker its parent left behind exists, aborts with LockConflict
\* and reaches neither confirmation, nor install, nor a further relaunch.
C2_ChildAbortsWithLockConflict ==
    \A p \in Procs :
        (/\ parent[p] # NoProc
         /\ lock_file_path[parent[p]] \in fs
         /\ pc[p] \notin {"idle", "start"})
            => /\ result[p] = "LockConflict"
               /\ StepsOf(trace[p]) \cap
                    {"confirm", "install_spawn", "relaunch_spawn"} = {}

\* C3: a call whose generated path already exists returns LockConflict
\* having done nothing but the existence test: no origin check, no fetch, no
\* confirmation, no spawn, no file created or deleted; and it does nothing
\* after that return.
C3_LockConflictNoSideEffects ==
    [][\A p \in Procs :
        /\ (pc[p] = "start" /\ pc'[p] # "start" /\ lock_file_path'[p] \in fs)
            => /\ pc'[p] = "returned"
               /\ result'[p] = "LockConflict"
               /\ trace'[p] = << <<"exists", FALSE>> >>
               /\ latest_version'[p] = NoVersion
               /\ confirm_arg'[p] = NoVersion
               /\ fs' = fs
        /\ (pc[p] = "returned" /\ result[p] = "LockConflict")
            => /\ pc'[p] = "returned"
               /\ result'[p] = "LockConflict"
               /\ trace'[p] = trace[p]]_vars

C3_Witness ==
    \E p \in Procs :
        /\ result[p] = "LockConflict"
        /\ lock_file_path[p] \in fs
        /\ trace[p] = << <<"exists", FALSE>> >>

\* C4: when the fetched latest version equals the current one the policy
\* is never invoked, no installer and no relaunch is spawned, and the call
\* returns Ok on the "already using the latest version" branch.
C4_EqualVersionsNoUpdate ==
    \A p \in Procs :
        (latest_version[p] # NoVersion /\ latest_version[p] = current_version[p])
            => /\ pc[p] \in {"compare", "returned"}
               /\ confirm_arg[p] = NoVersion
               /\ StepsOf(trace[p]) \cap
                    {"confirm", "install_spawn", "install_wait",
                     "relaunch_spawn", "exit"} = {}
               /\ pc[p] = "returned"
                    => (result[p] = "Ok" /\ info_log[p] = "already_latest")

C4_Witness ==
    \E p \in Procs :
        /\ pc[p] = "returned"
        /\ latest_version[p] = current_version[p]
        /\ result[p] = "Ok"
        /\ info_log[p] = "already_latest"

\* C5 as stated: when the policy declines, the marker of the call does not
\* exist when the call returns.
C5_DeclinedMarkerGone ==
    [][\A p \in Procs :
        (Returning(p) /\ HasIn(trace'[p], <<"confirm", FALSE>>))
            => lock_file_path[p] \notin fs']_vars

\* C5: when the versions differ and the policy returns false, no installer
\* and no relaunch is spawned, the call returns Ok on the "chose not to
\* update" branch, and the marker is gone at the return unless deleting it
\* failed.
C5_DeclinedNoSpawn ==
    /\ [](\A p \in Procs :
            HasIn(trace[p], <<"confirm", FALSE>>)
                => /\ latest_version[p] # current_version[p]
                   /\ pc[p] = "returned"
                   /\ result[p] = "Ok"
                   /\ info_log[p] = "declined"
                   /\ StepsOf(trace[p]) \cap
                        {"install_spawn", "install_wait",
                         "relaunch_spawn", "exit"} = {})
    /\ [][\A p \in Procs :
            (Returning(p) /\ HasIn(trace'[p], <<"confirm", FALSE>>))
                => ReleasedUnlessRemoveFailed(p)]_vars

C5_Witness ==
    \E p \in Procs :
        /\ HasIn(trace[p], <<"confirm", FALSE>>)
        /\ result[p] = "Ok"
        /\ info_log[p] = "declined"
        /\ lock_file_path[p] \notin fs

\* C6: after a successful relaunch spawn the call never returns: the only
\* thing the instance does next is exit(0), and no value is ever returned.
C6_HandOffNeverReturns ==
    /\ [](\A p \in Procs :
            HasIn(trace[p], <<"relaunch_spawn", TRUE>>)
                => /\ pc[p] \in {"spawned", "exited"}
                   /\ result[p] = "none"
                   /\ info_log[p] = "none"
                   /\ HasIn(trace[p], <<"confirm", TRUE>>)
                   /\ HasIn(trace[p], <<"install_wait", TRUE>>))
    /\ [][\A p \in Procs :
            /\ pc[p] = "spawned"
                => \/ (pc'[p] = "spawned" /\ trace'[p] = trace[p])
                   \/ (pc'[p] = "exited"
                        /\ trace'[p] = Append(trace[p], <<"exit", TRUE>>))
            /\ pc[p] = "exited"
                => (pc'[p] = "exited" /\ trace'[p] = trace[p])]_vars

C6_Witness ==
    \E p \in Procs :
        /\ pc[p] = "exited"
        /\ result[p] = "none"
        /\ LastOf(trace[p]) = <<"exit", TRUE>>

\* C7 as stated: when the relaunch spawn fails, the marker of the call does
\* not exist when the call returns.
C7_SpawnFailureMarkerGone ==
    [][\A p \in Procs :
        (Returning(p) /\ result'[p] = "RelaunchSpawnFailure")
            => lock_file_path[p] \notin fs']_vars

\* C7: when the relaunch spawn fails after the installer has run, the call
\* returns RelaunchSpawnFailure, the instance does not exit, and the marker
\* is gone at the return unless deleting it failed.
C7_SpawnFailureReturns ==
    /\ [](\A p \in Procs :
            /\ HasIn(trace[p], <<"relaunch_spawn", FALSE>>)
                => /\ pc[p] = "returned"
                   /\ result[p] = "RelaunchSpawnFailure"
                   /\ "exit" \notin StepsOf(trace[p])
                   /\ HasIn(trace[p], <<"install_wait", TRUE>>)
            /\ result[p] = "RelaunchSpawnFailure"
                => HasIn(trace[p], <<"relaunch_spawn", FALSE>>))
    /\ [][\A p \in Procs :
            (Returning(p) /\ result'[p] = "RelaunchSpawnFailure")
                => ReleasedUnlessRemoveFailed(p)]_vars

C7_Witness ==
    \E p \in Procs :
        /\ result[p] = "RelaunchSpawnFailure"
        /\ pc[p] = "returned"
        /\ LastOf(trace[p]) = <<"remove", TRUE>>
        /\ lock_file_path[p] \notin fs

\* the steps of one call in program order; the origin check is a step only
\* when it is enabled
StepOrder ==
    IF check_if_executed_from_PATH
    THEN <<"exists", "create", "origin", "fetch", "confirm",
           "install_spawn", "install_wait", "relaunch_spawn">>
    ELSE <<"exists", "create", "fetch", "confirm",
           "install_spawn", "install_wait", "relaunch_spawn">>

IsStep(event) == event[1] \notin {"remove", "exit"}

\* C8: the steps of a call occur in the order lock, origin (if enabled),
\* fetch, confirm, installer spawn, installer wait, relaunch spawn; every
\* step but the last one taken has succeeded, and nothing follows the
\* release of the guard or the exit.
C8_StepOrder ==
    \A p \in Procs :
        LET steps == SelectSeq(trace[p], IsStep) IN
        /\ Len(steps) <= Len(StepOrder)
        /\ \A i \in DOMAIN steps :
            /\ steps[i][1] = StepOrder[i]
            /\ i < Len(steps) => steps[i][2]
        /\ \A i \in DOMAIN trace[p] :
            ~IsStep(trace[p][i]) => i = Len(trace[p])

C8_Witness ==
    \E p \in Procs :
        /\ check_if_executed_from_PATH
        /\ Len(trace[p]) = 9
        /\ trace[p][8] = <<"relaunch_spawn", TRUE>>
        /\ trace[p][9] = <<"exit", TRUE>>

ConfirmCalls(p) ==
    Cardinality({i \in DOMAIN trace[p] : trace[p][i][1] = "confirm"})

\* C9: the policy is invoked at most once per call, with the fetched
\* latest version, and exactly in the calls whose fetch succeeded with a
\* latest version unequal to the current one (lower ones included), whatever
\* any other call has decided.
C9_ConfirmOnceIffDifferent ==
    \A p \in Procs :
        /\ ConfirmCalls(p) <= 1
        /\ ConfirmCalls(p) = 0 => confirm_arg[p] = NoVersion
        /\ ConfirmCalls(p) = 1
            => /\ latest_version[p] # NoVersion
               /\ latest_version[p] # current_version[p]
               /\ confirm_arg[p] = latest_version[p]
        /\ (/\ latest_version[p] # NoVersion
            /\ latest_version[p] # current_version[p]
            /\ pc[p] \notin {"compare", "confirm"})
            => ConfirmCalls(p) = 1

C9_Witness ==
    \E p \in Procs :
        /\ parent[p] # NoProc
        /\ HasIn(trace[parent[p]], <<"confirm", TRUE>>)
        /\ ConfirmCalls(p) = 1
        /\ SemverLess(latest_version[p], current_version[p])
        /\ confirm_arg[p] = latest_version[p]

\* C10: with the origin check enabled, a false is_executed_from_path makes
\* the call return OriginCheckFailure right after the lock was acquired,
\* before any fetch, confirmation or spawn; with the check disabled
\* is_executed_from_path is not called and the call always goes on to the
\* fetch.
C10_OriginCheck ==
    /\ [](\A p \in Procs :
            /\ HasIn(trace[p], <<"origin", FALSE>>)
                => /\ check_if_executed_from_PATH
                   /\ pc[p] = "returned"
                   /\ result[p] = "OriginCheckFailure"
                   /\ Len(trace[p]) = 4
                   /\ trace[p][1] = <<"exists", TRUE>>
                   /\ trace[p][2] = <<"create", TRUE>>
                   /\ trace[p][3] = <<"origin", FALSE>>
                   /\ trace[p][4][1] = "remove"
                   /\ latest_version[p] = NoVersion
                   /\ confirm_arg[p] = NoVersion
            /\ result[p] = "OriginCheckFailure"
                => HasIn(trace[p], <<"origin", FALSE>>)
            /\ ~check_if_executed_from_PATH
                => "origin" \notin StepsOf(trace[p]))
    /\ [][\A p \in Procs :
            (~check_if_executed_from_PATH /\ pc[p] = "origin"
                /\ pc'[p] # "origin")
                => (pc'[p] = "fetch" /\ trace'[p] = trace[p])]_vars

C10_Witness ==
    \E p \in Procs :
        /\ check_if_executed_from_PATH
        /\ result[p] = "OriginCheckFailure"
        /\ trace[p][3] = <<"origin", FALSE>>

FetchCalls(p) ==
    Cardinality({i \in DOMAIN trace[p] : trace[p][i][1] = "fetch"})

\* C11: a failed registry fetch makes the call return RegistryFetchFailure;
\* the fetch is made at most once per call, and after a failed one the policy
\* is not invoked, nothing is spawned and the instance does not exit.
C11_FetchFailureAborts ==
    [](\A p \in Procs :
        /\ FetchCalls(p) <= 1
        /\ HasIn(trace[p], <<"fetch", FALSE>>)
            => /\ pc[p] = "returned"
               /\ result[p] = "RegistryFetchFailure"
               /\ latest_version[p] = NoVersion
               /\ confirm_arg[p] = NoVersion
               /\ StepsOf(trace[p]) \cap
                    {"confirm", "install_spawn", "install_wait",
                     "relaunch_spawn", "exit"} = {}
        /\ result[p] = "RegistryFetchFailure"
            => HasIn(trace[p], <<"fetch", FALSE>>))

C11_Witness ==
    \E p \in Procs :
        /\ pc[p] = "returned"
        /\ result[p] = "RegistryFetchFailure"
        /\ HasIn(trace[p], <<"fetch", FALSE>>)
        /\ FetchCalls(p) = 1

\* the directories is_executed_from_path looks into, in order
OriginDirs == JoinDirs(origin_call.dirs, origin_call.cwd)

\* C12: is_executed_from_path returns false for an executable path that is
\* relative or has no parent, and for one whose parent directory is not a
\* search-path entry holding a file of that name; it returns true only if
\* some search-path directory holds a file of that name.
C12_FalseUnlessParentInPath ==
    origin_call.called =>
        LET exe == origin_call.exe_path IN
        /\ exe.kind \in {"empty", "root"} => origin_call.returned = FALSE
        /\ ~(/\ exe.kind = "file"
             /\ \E i \in DOMAIN OriginDirs : OriginDirs[i] = exe.dir
             /\ <<exe.dir, exe.name>> \in origin_call.files)
            => origin_call.returned = FALSE
        /\ origin_call.returned = TRUE
            => \E i \in DOMAIN OriginDirs :
                    <<OriginDirs[i], exe.name>> \in origin_call.files

\* the error a failed step is reported as; a declined confirmation and a
\* failed removal of the marker are not errors
ErrorOf(step) ==
    CASE step = "exists" -> "LockConflict"
      [] step = "create" -> "LockCreateFailure"
      [] step = "origin" -> "OriginCheckFailure"
      [] step = "fetch" -> "RegistryFetchFailure"
      [] step = "install_spawn" -> "InstallFailure"
      [] step = "install_wait" -> "InstallFailure"
      [] step = "relaunch_spawn" -> "RelaunchSpawnFailure"
      [] OTHER -> "Ok"

ErrorKinds == {"LockConflict", "LockCreateFailure", "OriginCheckFailure",
               "RegistryFetchFailure", "InstallFailure", "RelaunchSpawnFailure"}

\* C13: an instance ends inside relaunch_program only by the exit that
\* directly follows a successful relaunch spawn; every failed step is
\* returned as its error with the instance still running, and no step is
\* taken a second time.
C13_ExitOnlyAfterRelaunch ==
    [](\A p \in Procs :
        /\ (pc[p] = "exited" \/ "exit" \in StepsOf(trace[p]))
            => /\ pc[p] = "exited"
               /\ result[p] = "none"
               /\ Len(trace[p]) >= 2
               /\ trace[p][Len(trace[p]) - 1] = <<"relaunch_spawn", TRUE>>
               /\ LastOf(trace[p]) = <<"exit", TRUE>>
        /\ result[p] \in ErrorKinds
            => /\ pc[p] = "returned"
               /\ \E i \in DOMAIN trace[p] :
                    /\ ~trace[p][i][2]
                    /\ ErrorOf(trace[p][i][1]) = result[p]
        /\ \A i \in DOMAIN trace[p] :
            /\ (~trace[p][i][2] /\ ErrorOf(trace[p][i][1]) # "Ok")
                => (pc[p] = "returned" /\ result[p] = ErrorOf(trace[p][i][1]))
            /\ \A j \in DOMAIN trace[p] :
                trace[p][i][1] = trace[p][j][1] => i = j)

C13_Witness ==
    \E p, q \in Procs :
        /\ pc[p] = "returned"
        /\ result[p] = "LockCreateFailure"
        /\ trace[p] = << <<"exists", TRUE>>, <<"create", FALSE>> >>
        /\ pc[q] = "exited"

\* C14: the exit status of the installer does not steer the call: once the
\* installer has been waited for, whatever its status, the next step is the
\* relaunch spawn, and after a successful spawn the instance exits with
\* status 0 also when the installer had exited non-zero.
C14_InstallStatusIgnored ==
    /\ [](\A p \in Procs :
            install_status[p] # "none"
                => /\ HasIn(trace[p], <<"install_wait", TRUE>>)
                   /\ pc[p] \in {"relaunch", "spawned", "exited", "returned"}
                   /\ pc[p] # "relaunch" => "relaunch_spawn" \in StepsOf(trace[p])
                   /\ pc[p] = "returned" => result[p] = "RelaunchSpawnFailure"
                   /\ HasIn(trace[p], <<"relaunch_spawn", TRUE>>)
                        => pc[p] \in {"spawned", "exited"})
    /\ [][\A p \in Procs :
            (pc[p] = "wait" /\ install_status'[p] # "none")
                => pc'[p] = "relaunch"]_vars

C14_Witness ==
    \E p \in Procs :
        /\ install_status[p] = "nonzero"
        /\ pc[p] = "exited"
        /\ HasIn(trace[p], <<"relaunch_spawn", TRUE>>)
        /\ LastOf(trace[p]) = <<"exit", TRUE>>

\* C15: on the hand-off path the release is skipped: when the instance has
\* exited after a successful relaunch spawn, the marker it created is
\* still on disk, and the instance has removed and removes nothing.
C15_MarkerSurvivesHandOff ==
    /\ [](\A p \in Procs :
            pc[p] \in {"spawned", "exited"}
                => "remove" \notin StepsOf(trace[p]))
    /\ [][\A p \in Procs :
            /\ (pc[p] = "spawned" /\ pc'[p] = "exited")
                => lock_file_path[p] \in fs'
            /\ pc[p] \in {"spawned", "exited"}
                => (trace'[p] # trace[p] => fs' = fs)]_vars

\* instance p has created its marker and has neither returned nor exited
Holding(p) ==
    pc[p] \in {"origin", "fetch", "compare", "confirm", "install", "wait",
               "relaunch", "spawned"}

\* C16: acquisition is a check followed by a separate create.  An instance
\* that has seen its path absent can still create the marker and go on,
\* although another instance with the same path has seen it absent too or
\* already holds it; so two instances can hold the same path at once.
C16_CheckThenCreateRace ==
    [](\A p, q \in Procs :
        (/\ p # q
         /\ lock_file_path[p] = lock_file_path[q]
         /\ pc[p] = "create"
         /\ (pc[q] = "create" \/ Holding(q)))
            => /\ trace[p] = << <<"exists", TRUE>> >>
               /\ ENABLED (CreateLock(p) /\ pc'[p] = "origin"))

C16_Witness ==
    \E p, q \in Procs :
        /\ p # q
        /\ lock_file_path[p] = lock_file_path[q]
        /\ Holding(p) /\ Holding(q)
        /\ trace[p][1] = <<"exists", TRUE>> /\ trace[p][2] = <<"create", TRUE>>
        /\ trace[q][1] = <<"exists", TRUE>> /\ trace[q][2] = <<"create", TRUE>>
        /\ lock_file_path[p] \in fs

\* C17: the marker of an attempt exists on disk for the whole time between
\* its creation and the attempt's return or exit, whatever other attempts do.
C17_MarkerPresentWhileHeld ==
    \A p \in Procs : Holding(p) => lock_file_path[p] \in fs

\* the value a call returns after the step event that ended it
ValueAfter(event) ==
    IF event[2] \/ event[1] = "confirm" THEN "Ok" ELSE ErrorOf(event[1])

\* C18: the value returned by a call whose guard was dropped is fixed by the
\* step that ended the call, whether deleting the marker succeeded or
\* failed: a failed deletion is never returned and never turns Ok into an
\* error.
C18_RemoveFailureSwallowed ==
    [](\A p \in Procs :
        (pc[p] = "returned" /\ "remove" \in StepsOf(trace[p]))
            => LET n == Len(trace[p]) IN
               /\ trace[p][n][1] = "remove"
               /\ result[p] = ValueAfter(trace[p][n - 1])
               /\ result[p] \in ErrorKinds \cup {"Ok"})

C18_Witness ==
    \E p, q \in Procs :
        /\ pc[p] = "returned" /\ pc[q] = "returned"
        /\ LastOf(trace[p]) = <<"remove", FALSE>>
        /\ LastOf(trace[q]) = <<"remove", TRUE>>
        /\ result[p] = "Ok" /\ result[q] = "Ok"
        /\ lock_file_path[p] \in fs

\* the installer of instance p could not be spawned or waited for
InstallFailed(tr) ==
    HasIn(tr, <<"install_spawn", FALSE>>) \/ HasIn(tr, <<"install_wait", FALSE>>)

\* C19 as stated: when the installer cannot be spawned or waited for, the
\* marker of the call does not exist when the call returns.
C19_InstallFailureMarkerGone ==
    [][\A p \in Procs :
        (Returning(p) /\ InstallFailed(trace'[p]))
            => lock_file_path[p] \notin fs']_vars

\* C19: when the installer cannot be spawned or waiting for it fails, the
\* call returns InstallFailure, no relaunch spawn is attempted, the instance
\* does not exit, and the marker is gone at the return unless deleting it
\* failed.
C19_InstallFailureReturns ==
    /\ [](\A p \in Procs :
            /\ InstallFailed(trace[p])
                => /\ pc[p] = "returned"
                   /\ result[p] = "InstallFailure"
                   /\ "relaunch_spawn" \notin StepsOf(trace[p])
                   /\ "exit" \notin StepsOf(trace[p])
            /\ result[p] = "InstallFailure" => InstallFailed(trace[p]))
    /\ [][\A p \in Procs :
            (Returning(p) /\ InstallFailed(trace'[p]))
                => /\ result'[p] = "InstallFailure"
                   /\ ReleasedUnlessRemoveFailed(p)]_vars

C19_Witness ==
    \E p, q \in Procs :
        /\ pc[p] = "returned" /\ pc[q] = "returned"
        /\ result[p] = "InstallFailure" /\ result[q] = "InstallFailure"
        /\ HasIn(trace[p], <<"install_spawn", FALSE>>)
        /\ HasIn(trace[q], <<"install_wait", FALSE>>)
        /\ LastOf(trace[p]) = <<"remove", TRUE>>
        /\ lock_file_path[p] \notin fs

\* the position of a state in the order in which a call passes through them
PcRank(state) ==
    CASE state = "idle" -> 0
      [] state = "start" -> 1
      [] state = "create" -> 2
      [] state = "origin" -> 3
      [] state = "fetch" -> 4
      [] state = "compare" -> 5
      [] state = "confirm" -> 6
      [] state = "install" -> 7
      [] state = "wait" -> 8
      [] state = "relaunch" -> 9
      [] state = "spawned" -> 10
      [] OTHER -> 11

\* C20: a call only ever moves forward through its states and takes no step
\* twice, and, provided its blocking calls return, every started call
\* eventually returns to its caller or exits the process.
C20_LinearAndTerminates ==
    /\ [](\A p \in Procs : Cardinality(StepsOf(trace[p])) = Len(trace[p]))
    /\ [][\A p \in Procs :
            pc'[p] # pc[p] => PcRank(pc'[p]) > PcRank(pc[p])]_vars
    /\ \A p \in Procs :
            (pc[p] = "start") ~> (pc[p] \in {"returned", "exited"})

C20_Witness ==
    \E p, q \in Procs :
        /\ pc[p] = "exited" /\ LastOf(trace[p]) = <<"exit", TRUE>>
        /\ Len(trace[p]) >= 8
        /\ pc[q] = "returned" /\ result[q] # "none"

====
